---- MODULE Spec2Model ----
(***************************************************************************)
(* TeleBuddy: the serial telemetry controller (reciever.py), the forward   *)
(* kinematics chain it calls (forward_kin.py) and the render-loop consumer *)
(* (main.py: update / input).                                              *)
(*                                                                         *)
(* Number representation.  Python floats are modelled in fixed point:      *)
(*   - an angle in degrees is the integer numerator of a fraction over     *)
(*     DegDen (p * 360 / 1024 is kept as p * 360 over 1024, which is exact *)
(*     in binary floating point as well, 1024 being a power of two);       *)
(*   - an angle in radians is an integer count of pi/512;                  *)
(*   - a cosine, a sine, a matrix entry and a coordinate are integers in   *)
(*     units of 1/Scale, every product being rounded to that unit.         *)
(* Python integers are unbounded while floats are not: FloatMax stands for *)
(* sys.float_info.max, scaled down to fit the model's integers.            *)
(***************************************************************************)
EXTENDS Integers, Sequences, FiniteSets, TLC

\* ------------------------------------------------------------------ bounds
\* number of calls (start, stop, get_orientation) a client makes in a run
MaxCalls == 3
\* number of non-empty lines the serial device delivers in a run
MaxReads == 2
\* the link lengths given to calculate_tip_xy on its own range over 0 .. MaxLength
MaxLength == 2

\* ------------------------------------------------------- program constants
DUMMY_LENGTHS == <<10, 10, 10, 5, 5, 2>>
DegNum == 360
DegDen == 1024
\* stand-in for the largest finite float (1.8e308), see the header
FloatMax == 100000
\* fixed-point unit of cosines, sines and coordinates
Scale == 1000

Abs(n) == IF n < 0 THEN -n ELSE n

\* --------------------------------------------------------- forward_kin.py
\* np.radians on a fixed-point degree value: the result counts pi/512
Radians(deg) == (deg * 512) \div (180 * DegDen)

\* np.cos / np.sin of an angle counted in pi/512, in units of 1/Scale
CosTab ==
  [r \in {0, 100, 128, 256, 512, 768, 900} |->
     CASE r = 0   -> 1000
       [] r = 100 -> 818
       [] r = 128 -> 707
       [] r = 256 -> 0
       [] r = 512 -> -1000
       [] r = 768 -> 0
       [] r = 900 -> 724]
SinTab ==
  [r \in {0, 100, 128, 256, 512, 768, 900} |->
     CASE r = 0   -> 0
       [] r = 100 -> 576
       [] r = 128 -> 707
       [] r = 256 -> 1000
       [] r = 512 -> 0
       [] r = 768 -> -1000
       [] r = 900 -> -690]
Cos(rad) == CosTab[rad % 1024]
Sin(rad) == SinTab[rad % 1024]

\* rounding of a product of two fixed-point numbers back to 1/Scale
RoundScale(n) == (n + (Scale \div 2)) \div Scale

\* the @ operator on 4x4 matrices
MatMul(A, B) ==
  LET e(i, j) == RoundScale(A[i][1] * B[1][j] + A[i][2] * B[2][j]
                            + A[i][3] * B[3][j] + A[i][4] * B[4][j])
      row(i) == <<e(i, 1), e(i, 2), e(i, 3), e(i, 4)>>
  IN  <<row(1), row(2), row(3), row(4)>>

RotX(c, s) == << <<Scale, 0, 0, 0>>, <<0, c, -s, 0>>, <<0, s, c, 0>>, <<0, 0, 0, Scale>> >>
RotY(c, s) == << <<c, 0, s, 0>>, <<0, Scale, 0, 0>>, <<-s, 0, c, 0>>, <<0, 0, 0, Scale>> >>
RotZ(c, s) == << <<c, -s, 0, 0>>, <<s, c, 0, 0>>, <<0, 0, Scale, 0>>, <<0, 0, 0, Scale>> >>
\* variant: the link extends along the local Y axis
T_transAlongY(length) ==
  << <<Scale, 0, 0, 0>>, <<0, Scale, 0, length * Scale>>,
     <<0, 0, Scale, 0>>, <<0, 0, 0, Scale>> >>
T_trans(length) ==
  << <<Scale, 0, 0, length * Scale>>, <<0, Scale, 0, 0>>,
     <<0, 0, Scale, 0>>, <<0, 0, 0, Scale>> >>

\* variant: translate first, then rotate
get_tfTranslateFirst(angle_rad, axis, length) ==
  LET c == Cos(angle_rad)
      s == Sin(angle_rad)
      R == CASE axis = "x" -> RotX(c, s)
             [] axis = "y" -> RotY(c, s)
             [] axis = "z" -> RotZ(c, s)
  IN  MatMul(T_trans(length), R)
\* rotate about axis, then translate length along the rotated local X
get_tf(angle_rad, axis, length) ==
  LET c == Cos(angle_rad)
      s == Sin(angle_rad)
      R == CASE axis = "x" -> RotX(c, s)
             [] axis = "y" -> RotY(c, s)
             [] axis = "z" -> RotZ(c, s)
  IN  MatMul(R, T_trans(length))

\* variant: joint 1 turns about Z
JointAxesSecondYaw == <<"y", "z", "z", "x", "z", "z">>
\* the joint axes of T0 .. T5
JointAxes == <<"y", "y", "z", "x", "z", "z">>

\* angles: six fixed-point degrees; lengths: six integers.  Result <<x, y, z>>
calculate_tip_xy(angles, lengths) ==
  LET th == [i \in 1..6 |-> Radians(angles[i])]
      T(i) == get_tf(th[i], JointAxes[i], lengths[i])
      T_total == MatMul(MatMul(MatMul(MatMul(MatMul(T(1), T(2)), T(3)), T(4)), T(5)), T(6))
  IN  <<T_total[1][4], T_total[2][4], T_total[3][4]>>

\* ------------------------------------------------------------ reciever.py
\* One whitespace-separated token of a received line: its text before the
\* first ':', whether it has a ':' at all, and what int() makes of the rest.
Tok(k, n)  == [key |-> k, sep |-> TRUE, isInt |-> TRUE, n |-> n]
BadTok(k)  == [key |-> k, sep |-> TRUE, isInt |-> FALSE, n |-> 0]
BareTok(k) == [key |-> k, sep |-> FALSE, isInt |-> FALSE, n |-> 0]

\* a reading of several hundred digits: int() accepts it, floats cannot hold it
HugeRaw == 4 * FloatMax

\* the lines the serial device may send (line.decode().strip().split())
Lines ==
  << \* 1: the frame of the specification and of the test
     <<Tok("POT0", 512), Tok("POT1", 512), Tok("POT2", 256),
       Tok("POT3", 768), Tok("POT4", 100), Tok("POT5", 900)>>,
     \* 2: readings outside 0..1023, POT1, POT4 and POT5 missing
     <<Tok("POT0", 1280), Tok("POT2", -256), Tok("POT3", 2048)>>,
     \* 3: POT0:abc POT1 POT2:256 POT3:768 TEMP:25
     <<BadTok("POT0"), BareTok("POT1"), Tok("POT2", 256),
       Tok("POT3", 768), Tok("TEMP", 25)>>,
     \* 4: POT3 too large for a float
     <<Tok("POT0", 768), Tok("POT2", 512), Tok("POT3", HugeRaw)>>,
     \* 5: POT1 too large for a float
     <<Tok("POT0", 768), Tok("POT1", HugeRaw), Tok("POT2", 512), Tok("POT3", 256)>>,
     \* 6: boot banner and noise, no marker
     <<BareTok("boot"), Tok("TEMP", 25)>> >>

LineIds == DOMAIN Lines

\* variant: the marker test looks for the letter O only
ContainsLetterO(text) ==
  text \in {"POT0", "POT1", "POT2", "POT3", "POT4", "POT5", "boot"}

\* "POT" in text, over the vocabulary of Lines
ContainsPOT(text) == text \in {"POT0", "POT1", "POT2", "POT3", "POT4", "POT5"}

\* "POT" in line_str
HasMarker(line) == \E k \in DOMAIN line : ContainsPOT(line[k].key)

\* dictionaries
EmptyDict == [k \in {} |-> 0]
Put(d, k, v) == [x \in (DOMAIN d) \cup {k} |-> IF x = k THEN v ELSE d[x]]
Get(d, k, default) == IF k \in DOMAIN d THEN d[k] ELSE default

\* variant: a malformed token ends the token loop (break for continue)
RECURSIVE ParseTokensAbort(_, _)
ParseTokensAbort(parts, parsed) ==
  IF parts = <<>> THEN parsed
  ELSE LET part == Head(parts)
       IN  IF part.sep /\ part.isInt
             THEN ParseTokensAbort(Tail(parts), Put(parsed, part.key, part.n))
             ELSE parsed

\* the token loop of _parse_line
RECURSIVE ParseTokens(_, _)
ParseTokens(parts, parsed) ==
  IF parts = <<>> THEN parsed
  ELSE LET part == Head(parts)
       IN  IF part.sep /\ part.isInt
             THEN ParseTokens(Tail(parts), Put(parsed, part.key, part.n))
             ELSE ParseTokens(Tail(parts), parsed)

\* p0 .. p5 = parsed.get("POTi", 0)
PotKeys == <<"POT0", "POT1", "POT2", "POT3", "POT4", "POT5">>
Pots(parsed) == [i \in 1..6 |-> Get(parsed, PotKeys[i], 0)]

\* int * 360 / 1024: raises OverflowError when the quotient exceeds the floats
TrueDivOverflows(p) == Abs(p * DegNum) \div DegDen > FloatMax
\* int * scaler: raises OverflowError when the int itself exceeds the floats
IntToFloatOverflows(p) == Abs(p) > FloatMax
\* the value of p * 360 / 1024, as the numerator over DegDen
ToDeg(p) == p * DegNum

\* which reading feeds which angle of the Pose
PitchPot(pots) == pots[1]
YawPot(pots) == pots[3]
\* variant: roll taken from POT5, as test_receiver.py expects
RollPotFromPot5(pots) == pots[6]
RollPot(pots) == pots[4]

\* x, y, z = calculate_tip_xy(angles_deg, DUMMY_LENGTHS)
TipOf(pots) == calculate_tip_xy([i \in 1..6 |-> ToDeg(pots[i])], DUMMY_LENGTHS)

\* what _parse_line computes from each line, evaluated once per line:
\* parsed, p0..p5, whether angles_deg raises, and the tip position
LineParsed == [l \in LineIds |-> ParseTokens(Lines[l], EmptyDict)]
LinePots == [l \in LineIds |-> Pots(LineParsed[l])]
LineChainOverflows == [l \in LineIds |-> \E j \in 1..6 : IntToFloatOverflows(LinePots[l][j])]
LineTip ==
  [l \in LineIds |->
     IF HasMarker(Lines[l]) /\ ~LineChainOverflows[l] THEN TipOf(LinePots[l]) ELSE <<0, 0, 0>>]

\* _format_output: the label printed after each key
labels ==
  [k \in {"POT0", "POT1", "POT2", "POT3", "POT4", "POT5"} |->
     CASE k = "POT0" -> "Pitch"
       [] k = "POT1" -> "Pitch"
       [] k = "POT2" -> "Yaw"
       [] k = "POT3" -> "Roll"
       [] k = "POT4" -> "Yaw"
       [] k = "POT5" -> "Yaw"]

\* _format_output(values): one part "KEY(label): value" per key POT0..POT5, the
\* value being "----" (has = FALSE) for a key values lacks, then the XYZ part,
\* which reads 'x', 'y', 'z' from the same dictionary
_format_output(vals) ==
  [kind |-> "frame",
   parts |-> [i \in 1..6 |->
                [key |-> PotKeys[i], label |-> labels[PotKeys[i]],
                 has |-> PotKeys[i] \in DOMAIN vals, val |-> Get(vals, PotKeys[i], 0)]],
   xyz |-> <<Get(vals, "x", 0), Get(vals, "y", 0), Get(vals, "z", 0)>>]

\* variant: __init__ leaves a non-zero default in the Pose
InitValuesNonZero ==
  [pitch |-> 0, roll |-> 0, yaw |-> 92160, x |-> 0, y |-> 0, z |-> 0, raw |-> EmptyDict]

\* self.values after __init__
InitValues ==
  [pitch |-> 0, roll |-> 0, yaw |-> 0, x |-> 0, y |-> 0, z |-> 0, raw |-> EmptyDict]

\* the dictionary get_orientation builds
PoseOf(v) ==
  [pitch |-> v.pitch, roll |-> v.roll, yaw |-> v.yaw, x |-> v.x, y |-> v.y, z |-> v.z]

\* choose_port: nports devices listed, sel what the user typed
Selections ==
  { [kind |-> "empty", n |-> 0], [kind |-> "int", n |-> 0], [kind |-> "int", n |-> 1],
    [kind |-> "int", n |-> 7], [kind |-> "int", n |-> -1], [kind |-> "text", n |-> 0] }
Device(idx) == IF idx = 0 THEN "dev0" ELSE "dev1"
NoPort == ""
choose_port(nports, sel) ==
  IF nports = 0 THEN NoPort
  ELSE LET idx == IF sel.kind = "int" THEN sel.n ELSE 0
       IN  IF 0 <= idx /\ idx < nports THEN Device(idx) ELSE NoPort

\* ------------------------------------------------------------------ state
VARIABLES
  port,               \* self.port, NoPort for None
  serial_connection,  \* self.serial_connection: 0 for None, else the k-th Serial object
  is_open,            \* is_open of the Serial object self.serial_connection refers to
  running,            \* self.running
  thread,             \* self.thread: 0 for None, else the k-th Thread object
  lock,               \* self.lock: 0 when free, else the reader thread holding it
  values,             \* self.values
  tpc,                \* where each reader thread stands in _read_loop / _parse_line
  tline,              \* the line each reader thread holds in this iteration (0: none)
  mpc,                \* where the consumer thread stands (main.py, or the test stub)
  snapshot,           \* what get_orientation() returned, while it is the consumer's last call
  upd,                \* what update() has read from controller.values in its current / last tick
  lastOp,             \* the consumer's last completed call on the controller
  markerSeen,         \* history: some reader has read a marker line
  nreads,             \* history: how many non-empty lines have been delivered
  ncalls,             \* history: how many calls the client has made
  kin                 \* a call of calculate_tip_xy: its arguments and its result

vars == <<port, serial_connection, is_open, running, thread, lock, values,
          tpc, tline, mpc, snapshot, upd, lastOp, markerSeen, nreads, ncalls,
          kin>>

\* every start() may spawn a reader thread
Threads == 1..MaxCalls

\* the reader threads that have been started and have not returned
Alive == {i \in Threads : tpc[i] \notin {"unborn", "done"}}

ZeroPose == PoseOf(InitValues)
NoSnapshot == [valid |-> FALSE, pose |-> ZeroPose]
NoTick == [has |-> FALSE, pitch |-> 0, roll |-> 0, yaw |-> 0, x |-> 0, y |-> 0, z |-> 0]

\* SerialController(): __init__, before any call
ControllerInit ==
  /\ port \in {NoPort, "dev0"}
  /\ serial_connection = 0
  /\ is_open = FALSE
  /\ running = FALSE
  /\ thread = 0
  /\ lock = 0
  /\ values = InitValues
  /\ tpc = [i \in Threads |-> "unborn"]
  /\ tline = [i \in Threads |-> 0]
  /\ mpc = "idle"
  /\ snapshot = NoSnapshot
  /\ upd = NoTick
  /\ lastOp = "none"
  /\ markerSeen = FALSE
  /\ nreads = 0
  /\ ncalls = 0

\* no call of calculate_tip_xy is followed
NoKin == [angles |-> <<0, 0, 0, 0, 0, 0>>, lengths |-> <<0, 0, 0, 0, 0, 0>>,
          called |-> FALSE, tip |-> <<0, 0, 0>>]

Init == ControllerInit /\ kin = NoKin

\* ---------------------------------------------------------------- start()
\* the port start() goes on with: self.port, or what choose_port returns
PortAfterChoice(nports, sel) == IF port = NoPort THEN choose_port(nports, sel) ELSE port

\* no port: "Running in Mock Mode", return
StartNoPort ==
  /\ mpc = "idle"
  /\ ncalls < MaxCalls
  /\ ncalls' = ncalls + 1
  /\ \E nports \in 0..1, sel \in Selections :
       /\ PortAfterChoice(nports, sel) = NoPort
       /\ port' = NoPort
  /\ lastOp' = "start_noport"
  /\ snapshot' = NoSnapshot /\ upd' = NoTick
  /\ UNCHANGED <<serial_connection, is_open, running, thread, lock, values, tpc, tline, mpc,
                 markerSeen, nreads, kin>>

\* serial.Serial(...) raises: "Failed to open serial port", return
StartOpenFails ==
  /\ mpc = "idle"
  /\ ncalls < MaxCalls
  /\ ncalls' = ncalls + 1
  /\ \E nports \in 0..1, sel \in Selections :
       /\ PortAfterChoice(nports, sel) # NoPort
       /\ port' = PortAfterChoice(nports, sel)
  /\ lastOp' = "start_openfail"
  /\ snapshot' = NoSnapshot /\ upd' = NoTick
  /\ UNCHANGED <<serial_connection, is_open, running, thread, lock, values, tpc, tline, mpc,
                 markerSeen, nreads, kin>>

\* the port opens: running = True, a new thread runs _read_loop
StartOk ==
  /\ mpc = "idle"
  /\ ncalls < MaxCalls
  /\ ncalls' = ncalls + 1
  /\ \E nports \in 0..1, sel \in Selections :
       /\ PortAfterChoice(nports, sel) # NoPort
       /\ port' = PortAfterChoice(nports, sel)
  /\ \E k \in Threads :
       /\ tpc[k] = "unborn"
       /\ \A j \in 1..(k - 1) : tpc[j] # "unborn"
       /\ serial_connection' = k
       /\ is_open' = TRUE
       /\ running' = TRUE
       /\ thread' = k
       /\ tpc' = [tpc EXCEPT ![k] = "loop"]
  /\ lastOp' = "start_ok"
  /\ snapshot' = NoSnapshot /\ upd' = NoTick
  /\ UNCHANGED <<lock, values, tline, mpc, markerSeen, nreads, kin>>

\* ----------------------------------------------------------------- stop()
\* self.running = False
StopSignal ==
  /\ mpc = "idle"
  /\ ncalls < MaxCalls
  /\ ncalls' = ncalls + 1
  /\ running' = FALSE
  /\ mpc' = "stop_join"
  /\ snapshot' = NoSnapshot /\ upd' = NoTick
  /\ UNCHANGED <<port, serial_connection, is_open, thread, lock, values, tpc, tline, lastOp,
                 markerSeen, nreads, kin>>

\* join(timeout=1.0) returns, the thread finished or not; then close()
StopJoinClose ==
  /\ mpc = "stop_join"
  /\ is_open' = IF serial_connection # 0 THEN FALSE ELSE is_open
  /\ mpc' = "idle"
  /\ lastOp' = "stop"
  /\ UNCHANGED <<port, serial_connection, running, thread, lock, values, tpc, tline,
                 snapshot, upd, markerSeen, nreads, ncalls, kin>>

\* ------------------------------------------------------------- _read_loop
\* while self.running and self.serial_connection and self.serial_connection.is_open
LoopCond == running /\ serial_connection # 0 /\ is_open

LoopCheck(i) ==
  /\ tpc[i] = "loop"
  /\ tpc' = [tpc EXCEPT ![i] = IF LoopCond THEN "readline" ELSE "done"]
  /\ tline' = [tline EXCEPT ![i] = 0]
  /\ UNCHANGED <<port, serial_connection, is_open, running, thread, lock, values, mpc,
                 snapshot, upd, lastOp, markerSeen, nreads, ncalls, kin>>

\* readline() returns b"" after its timeout: continue
ReadTimeout(i) ==
  /\ tpc[i] = "readline"
  /\ tpc' = [tpc EXCEPT ![i] = "loop"]
  /\ tline' = [tline EXCEPT ![i] = 0]
  /\ UNCHANGED <<port, serial_connection, is_open, running, thread, lock, values, mpc,
                 snapshot, upd, lastOp, markerSeen, nreads, ncalls, kin>>

\* readline() raises (I/O error, or the port was closed meanwhile)
ReadError(i) ==
  /\ tpc[i] = "readline"
  /\ tpc' = [tpc EXCEPT ![i] = "backoff"]
  /\ UNCHANGED <<port, serial_connection, is_open, running, thread, lock, values, tline,
                 mpc, snapshot, upd, lastOp, markerSeen, nreads, ncalls, kin>>

\* readline() returns a line of the open port; "POT" in line_str decides
ReadLine(i) ==
  /\ tpc[i] = "readline"
  /\ serial_connection # 0 /\ is_open
  /\ nreads < MaxReads
  /\ nreads' = nreads + 1
  /\ \E l \in LineIds :
       /\ tline' = [tline EXCEPT ![i] = l]
       /\ tpc' = [tpc EXCEPT ![i] = IF HasMarker(Lines[l]) THEN "parse" ELSE "loop"]
       /\ markerSeen' = (markerSeen \/ HasMarker(Lines[l]))
  /\ UNCHANGED <<port, serial_connection, is_open, running, thread, lock, values, mpc,
                 snapshot, upd, lastOp, ncalls, kin>>

\* variant: the exception ends the thread
BackoffTerminates(i) ==
  /\ tpc[i] = "backoff"
  /\ tpc' = [tpc EXCEPT ![i] = "done"]
  /\ UNCHANGED <<port, serial_connection, is_open, running, thread, lock, values,
                 tline, mpc, snapshot, upd, lastOp, markerSeen, nreads, ncalls, kin>>

\* except Exception: print, time.sleep(0.1), next iteration
Backoff(i) ==
  /\ tpc[i] = "backoff"
  /\ tpc' = [tpc EXCEPT ![i] = "loop"]
  /\ UNCHANGED <<port, serial_connection, is_open, running, thread, lock, values,
                 tline, mpc, snapshot, upd, lastOp, markerSeen, nreads, ncalls, kin>>

\* ------------------------------------------------------------ _parse_line
\* the local parsed / p0..p5 of reader i
Parsed(i) == LineParsed[tline[i]]
MyPots(i) == LinePots[tline[i]]

\* the token loop, then with self.lock: (blocks while the lock is held)
ParseAcquire(i) ==
  /\ tpc[i] = "parse"
  /\ lock = 0
  /\ lock' = i
  /\ tpc' = [tpc EXCEPT ![i] = "w_raw"]
  /\ UNCHANGED <<port, serial_connection, is_open, running, thread, values, tline, mpc,
                 snapshot, upd, lastOp, markerSeen, nreads, ncalls, kin>>

\* one assignment to self.values[field] inside the with block
Assign(i, from, field, val, to) ==
  /\ tpc[i] = from
  /\ lock = i
  /\ values' = [values EXCEPT ![field] = val]
  /\ tpc' = [tpc EXCEPT ![i] = to]
  /\ UNCHANGED <<port, serial_connection, is_open, running, thread, lock, tline, mpc,
                 snapshot, upd, lastOp, markerSeen, nreads, ncalls, kin>>

\* an exception inside the with block: the lock is released, _read_loop catches
Raise(i, from) ==
  /\ tpc[i] = from
  /\ lock = i
  /\ lock' = 0
  /\ tpc' = [tpc EXCEPT ![i] = "backoff"]
  /\ UNCHANGED <<port, serial_connection, is_open, running, thread, values, tline, mpc,
                 snapshot, upd, lastOp, markerSeen, nreads, ncalls, kin>>

WriteRaw(i) == tpc[i] = "w_raw" /\ Assign(i, "w_raw", "raw", Parsed(i), "w_pitch")

WritePitch(i) ==
  /\ tpc[i] = "w_pitch"
  /\ IF TrueDivOverflows(PitchPot(MyPots(i)))
       THEN Raise(i, "w_pitch")
       ELSE Assign(i, "w_pitch", "pitch", ToDeg(PitchPot(MyPots(i))), "w_roll")

WriteRoll(i) ==
  /\ tpc[i] = "w_roll"
  /\ IF TrueDivOverflows(RollPot(MyPots(i)))
       THEN Raise(i, "w_roll")
       ELSE Assign(i, "w_roll", "roll", ToDeg(RollPot(MyPots(i))), "w_yaw")

WriteYaw(i) ==
  /\ tpc[i] = "w_yaw"
  /\ IF TrueDivOverflows(YawPot(MyPots(i)))
       THEN Raise(i, "w_yaw")
       ELSE Assign(i, "w_yaw", "yaw", ToDeg(YawPot(MyPots(i))), "w_x")

\* angles_deg, calculate_tip_xy, then self.values["x"] = x
WriteX(i) ==
  /\ tpc[i] = "w_x"
  /\ IF LineChainOverflows[tline[i]]
       THEN Raise(i, "w_x")
       ELSE Assign(i, "w_x", "x", LineTip[tline[i]][1], "w_y")

WriteY(i) == tpc[i] = "w_y" /\ Assign(i, "w_y", "y", LineTip[tline[i]][2], "w_z")

WriteZ(i) == tpc[i] = "w_z" /\ Assign(i, "w_z", "z", LineTip[tline[i]][3], "print")

\* print(self._format_output(parsed)), still inside the with block; then release
PrintRelease(i) ==
  /\ tpc[i] = "print"
  /\ lock = i
  /\ lock' = 0
  /\ tpc' = [tpc EXCEPT ![i] = "loop"]
  /\ UNCHANGED <<port, serial_connection, is_open, running, thread, values,
                 tline, mpc, snapshot, upd, lastOp, markerSeen, nreads, ncalls, kin>>

\* -------------------------------------------------------- get_orientation
\* with self.lock: return a copy of the six fields
GetOrientation ==
  /\ mpc = "idle"
  /\ ncalls < MaxCalls
  /\ ncalls' = ncalls + 1
  /\ lock = 0
  /\ snapshot' = [valid |-> TRUE, pose |-> PoseOf(values)]
  /\ lastOp' = "get"
  /\ upd' = NoTick
  /\ UNCHANGED <<port, serial_connection, is_open, running, thread, lock, values, tpc,
                 tline, mpc, markerSeen, nreads, kin>>

\* ------------------------------------------------------- main.py update()
\* data = controller.values, read field by field, without the lock.
\* has_serial = any(data.get(k, 0) != 0 for k in ['pitch', 'roll', 'yaw'])
HasSerialStep(from, field, next) ==
  /\ mpc = from
  /\ IF values[field] # 0
       THEN /\ upd' = [NoTick EXCEPT !.has = TRUE]
            /\ mpc' = "u_pitch"
       ELSE /\ upd' = NoTick
            /\ mpc' = next
  /\ snapshot' = NoSnapshot
  /\ UNCHANGED <<port, serial_connection, is_open, running, thread, lock, values, tpc,
                 tline, lastOp, markerSeen, nreads, ncalls, kin>>

UpdateHasPitch == HasSerialStep("idle", "pitch", "u_has_roll")
UpdateHasRoll  == HasSerialStep("u_has_roll", "roll", "u_has_yaw")
UpdateHasYaw   == HasSerialStep("u_has_yaw", "yaw", "u_pitch")

\* p = data.get('pitch', 0) and the like
UpdateRead(from, field, to) ==
  /\ mpc = from
  /\ upd' = [upd EXCEPT ![field] = values[field]]
  /\ mpc' = to
  /\ lastOp' = IF to = "idle" THEN "update" ELSE lastOp
  /\ UNCHANGED <<port, serial_connection, is_open, running, thread, lock, values, tpc,
                 tline, snapshot, markerSeen, nreads, ncalls, kin>>

UpdatePitch == UpdateRead("u_pitch", "pitch", "u_roll")
UpdateRoll  == UpdateRead("u_roll", "roll", "u_yaw")
UpdateYaw   == UpdateRead("u_yaw", "yaw", IF upd.has THEN "u_x" ELSE "idle")
UpdateX     == UpdateRead("u_x", "x", "u_y")
UpdateY     == UpdateRead("u_y", "y", "u_z")
UpdateZ     == UpdateRead("u_z", "z", "idle")

\* ------------------------------------------------------------------- spec
Reader(i) ==
  \/ LoopCheck(i) \/ ReadTimeout(i) \/ ReadError(i) \/ ReadLine(i) \/ Backoff(i)
  \/ ParseAcquire(i) \/ WriteRaw(i) \/ WritePitch(i) \/ WriteRoll(i) \/ WriteYaw(i)
  \/ WriteX(i) \/ WriteY(i) \/ WriteZ(i) \/ PrintRelease(i)

\* A client of the controller's interface, as the stub at the end of
\* reciever.py is one: start(), stop() and get_orientation() in any order.
Next ==
  \/ StartNoPort \/ StartOpenFails \/ StartOk
  \/ StopSignal \/ StopJoinClose
  \/ GetOrientation
  \/ \E i \in Threads : Reader(i)

Spec == Init /\ [][Next]_vars

\* The same client with the scheduling of the threads: a reader thread that can
\* take a step eventually takes one (readline returns within its timeout, the
\* sleep of the except branch ends, the lock is granted to a waiting thread),
\* and a stop() that has begun finishes (join returns after at most one second).
FairSpec ==
  /\ Spec
  /\ \A i \in Threads : SF_vars(Reader(i))
  /\ WF_vars(StopJoinClose)

\* main.py: controller = SerialController(); controller.start() once, then the
\* render loop calls update() every tick until escape calls stop() and quits.
MainStarted == lastOp \notin {"none", "stop"}

MainNext ==
  \/ lastOp = "none" /\ StartNoPort
  \/ lastOp = "none" /\ StartOpenFails
  \/ lastOp = "none" /\ StartOk
  \/ MainStarted /\ UpdateHasPitch
  \/ UpdateHasRoll \/ UpdateHasYaw
  \/ UpdatePitch \/ UpdateRoll \/ UpdateYaw \/ UpdateX \/ UpdateY \/ UpdateZ
  \/ MainStarted /\ StopSignal
  \/ StopJoinClose
  \/ \E i \in Threads : Reader(i)

\* controller = SerialController(): no port given
MainInit == Init /\ port = NoPort

MainSpec == MainInit /\ [][MainNext]_vars

\* ------------------------------------- forward_kin.py called on its own
\* The angle arguments: degrees (fixed point) whose cosine and sine are tabulated;
\* 128 * 360 / 1024 is 45 degrees
KinAngles == {r * DegNum : r \in DOMAIN CosTab}

\* six angles of which at most one is not zero (joints are numbered from 1 here)
OneAngle(i, a) == [j \in 1..6 |-> IF j = i THEN a ELSE 0]
KinAngleLists == {OneAngle(i, a) : i \in 1..6, a \in KinAngles}

\* the length arguments: every list over 0 .. MaxLength, and my_lengths of the example
KinLengthLists == [1..6 -> 0..MaxLength] \cup {<<10, 10, 10, 5, 5, 2>>}

\* my_angles of the example usage
my_angles == OneAngle(2, 45 * DegDen)

\* the arguments are chosen, the function has not been called
KinInit ==
  /\ ControllerInit
  /\ kin \in [angles : KinAngleLists, lengths : KinLengthLists,
               called : {FALSE}, tip : {<<0, 0, 0>>}]

\* x, y, z = calculate_tip_xy(angles, lengths)
KinCall ==
  /\ ~kin.called
  /\ kin' = [kin EXCEPT !.called = TRUE, !.tip = calculate_tip_xy(kin.angles, kin.lengths)]
  /\ UNCHANGED <<port, serial_connection, is_open, running, thread, lock, values, tpc,
                 tline, mpc, snapshot, upd, lastOp, markerSeen, nreads, ncalls>>

KinNext == KinCall

KinSpec == KinInit /\ [][KinNext]_vars

\* ----------------------------------------------------------------- claims
\* The lines whose processing by _parse_line runs to its end
Publishable(l) ==
  /\ HasMarker(Lines[l])
  /\ ~TrueDivOverflows(LinePots[l][1])
  /\ ~TrueDivOverflows(LinePots[l][4])
  /\ ~TrueDivOverflows(LinePots[l][3])
  /\ ~LineChainOverflows[l]

\* the Pose one frame gives when all six of its fields are published
FramePose(l) ==
  [pitch |-> ToDeg(LinePots[l][1]), roll |-> ToDeg(LinePots[l][4]),
   yaw |-> ToDeg(LinePots[l][3]),
   x |-> LineTip[l][1], y |-> LineTip[l][2], z |-> LineTip[l][3]]

AllZero(pose) ==
  /\ pose.pitch = 0 /\ pose.roll = 0 /\ pose.yaw = 0
  /\ pose.x = 0 /\ pose.y = 0 /\ pose.z = 0

\* all six fields are zero, or all six come from one frame
OneFrame(pose) == AllZero(pose) \/ \E l \in LineIds : Publishable(l) /\ pose = FramePose(l)

\* C1: every get_orientation() returns six fields that all come from one and
\* the same published frame, or that are all zero.
C1_SnapshotFromOneFrame == snapshot.valid => OneFrame(snapshot.pose)

\* C2: whenever no _parse_line is under way, the stored Pose is entirely zero
\* or has all six fields derived from one single frame.
C2_StoredPoseFromOneFrame == lock = 0 => OneFrame(PoseOf(values))

\* C3: at the end of every update() tick, the pitch, roll and yaw it read (and
\* the x, y, z, when it read them) all belong to one published frame or are
\* all zero.
C3_TickReadsOneFrame ==
  (mpc = "idle" /\ lastOp = "update") =>
    \/ (upd.pitch = 0 /\ upd.roll = 0 /\ upd.yaw = 0 /\ ~upd.has)
    \/ \E l \in LineIds :
         /\ Publishable(l)
         /\ upd.pitch = FramePose(l).pitch
         /\ upd.roll = FramePose(l).roll
         /\ upd.yaw = FramePose(l).yaw
         /\ upd.has => /\ upd.x = FramePose(l).x
                       /\ upd.y = FramePose(l).y
                       /\ upd.z = FramePose(l).z

\* C4: at most one reader thread is alive at any time, whatever the sequence
\* of start() and stop() calls.
C4_AtMostOneReader == Cardinality(Alive) <= 1

\* the step on which a stop() call returns
StopReturns == mpc = "stop_join" /\ mpc' = "idle"

\* C5: a stop() called before any start(), after a start() that ended in mock
\* mode, or right after another stop(), returns with the running flag false,
\* no reader thread running and the connection closed or absent; the second
\* of two stop() calls leaves running flag, thread handle and connection as
\* the first left them.
C5_StopLeavesTerminated ==
  [][(/\ StopReturns
      /\ \/ lastOp \in {"none", "stop"}
         \/ lastOp \in {"start_noport", "start_openfail"} /\ thread = 0)
     => (/\ running' = FALSE
         /\ Alive' = {}
         /\ (serial_connection' = 0 \/ ~is_open')
         /\ lastOp = "stop" =>
              <<running, thread, serial_connection, is_open>>' =
                <<running, thread, serial_connection, is_open>>)]_vars

\* C6: when start() has returned without a working connection (no port, or
\* the open failed), the running flag is false and the controller is in mock
\* mode: no reader thread, no open connection.
C6_FailedStartIsMockMode ==
  (mpc = "idle" /\ lastOp \in {"start_noport", "start_openfail"}) =>
    /\ running = FALSE
    /\ Alive = {}
    /\ (serial_connection = 0 \/ ~is_open)

\* C7: as long as no marker line has arrived (before start(), in mock mode,
\* Running before the first frame), the stored Pose is all zero and so is
\* what get_orientation() returns.
C7_ZeroPoseBeforeFirstFrame ==
  ~markerSeen =>
    /\ AllZero(PoseOf(values))
    /\ snapshot.valid => AllZero(snapshot.pose)

\* Running, a line without marker consumed, and get_orientation() has returned
C7_Witness ==
  /\ ~markerSeen /\ snapshot.valid /\ running /\ nreads > 0
  /\ AllZero(snapshot.pose)

\* a line none of whose tokens contains POT
MarkerFree(l) ==
  \A k \in DOMAIN Lines[l] :
    Lines[l][k].key \notin {"POT0", "POT1", "POT2", "POT3", "POT4", "POT5"}

\* C8: when readline() returns nothing or a line without the marker POT, that
\* step changes neither self.values nor the lock, the reader goes back to the
\* head of its loop, and _parse_line is never entered for such a line.
C8_NoMarkerNoChange ==
  [][\A i \in Threads :
       (tpc[i] = "readline" /\ tpc'[i] # "readline") =>
         /\ (nreads' # nreads /\ MarkerFree(tline'[i])) => tpc'[i] = "loop"
         /\ (tline'[i] = 0 \/ MarkerFree(tline'[i])) => (values' = values /\ lock' = lock)
         /\ tpc'[i] = "parse" => ~MarkerFree(tline'[i])]_vars

\* a reader has just dropped the boot banner, after a frame was published
C8_Witness ==
  \E i \in Threads :
    /\ tpc[i] = "loop" /\ tline[i] # 0 /\ MarkerFree(tline[i])
    /\ ~AllZero(PoseOf(values))

\* the reading the well-formed tokens of a line give for a key, 0 without one
WellFormedAt(l, key) ==
  {k \in DOMAIN Lines[l] : Lines[l][k].key = key /\ Lines[l][k].sep /\ Lines[l][k].isInt}
Reading(l, key) ==
  IF WellFormedAt(l, key) = {} THEN 0
  ELSE Lines[l][CHOOSE k \in WellFormedAt(l, key) : \A m \in WellFormedAt(l, key) : m <= k].n
Readings == [l \in LineIds |-> [j \in 1..6 |-> Reading(l, PotKeys[j])]]

\* the tip position the chain gives for the readings of a line that floats can hold
ReadingsTip ==
  [l \in LineIds |->
     IF \A j \in 1..6 : Abs(Readings[l][j]) <= FloatMax
       THEN calculate_tip_xy([j \in 1..6 |-> Readings[l][j] * 360], <<10, 10, 10, 5, 5, 2>>)
       ELSE <<0, 0, 0>>]

\* a token of the line is malformed: no ':' or a value that is no integer
HasMalformedToken(l) == \E k \in DOMAIN Lines[l] : ~Lines[l][k].sep \/ ~Lines[l][k].isInt

\* C9: when _parse_line has processed a line, exactly the well-formed tokens
\* are in raw; a joint whose token is malformed or missing counts as 0, and
\* the Pose is the one of these readings.
C9_MalformedTokenDropped ==
  \A i \in Threads :
    tpc[i] = "print" =>
      /\ DOMAIN values.raw = {Lines[tline[i]][k].key : k \in
             {m \in DOMAIN Lines[tline[i]] : Lines[tline[i]][m].sep /\ Lines[tline[i]][m].isInt}}
      /\ \A key \in DOMAIN values.raw : values.raw[key] = Reading(tline[i], key)
      /\ values.pitch = Readings[tline[i]][1] * 360
      /\ values.roll = Readings[tline[i]][4] * 360
      /\ values.yaw = Readings[tline[i]][3] * 360
      /\ <<values.x, values.y, values.z>> = ReadingsTip[tline[i]]

\* the line POT0:abc POT1 POT2:256 POT3:768 TEMP:25 has been processed
C9_Witness ==
  \E i \in Threads :
    /\ tpc[i] = "print" /\ HasMalformedToken(tline[i])
    /\ values.pitch = 0 /\ values.yaw = 90 * 1024 /\ values.roll = 270 * 1024
    /\ "POT0" \notin DOMAIN values.raw /\ "POT1" \notin DOMAIN values.raw

TestLabels == <<"Pitch", "Pitch", "Pitch", "Yaw", "Roll", "Roll">>

\* C11: as test_receiver.py asserts, a processed frame gives pitch = POT0 * 360 / 1024,
\* roll = POT5 * 360 / 1024 and yaw = POT3 * 360 / 1024, and the line printed
\* for it labels POT0, POT1, POT2 as Pitch, POT3 as Yaw and POT4, POT5 as Roll.
C11_TestExpectations ==
  \A i \in Threads :
    tpc[i] = "print" /\ tline[i] = 1 =>
      /\ values.pitch = Readings[1][1] * 360
      /\ values.roll = Readings[1][6] * 360
      /\ values.yaw = Readings[1][4] * 360
      /\ \A j \in 1..6 : _format_output(values.raw).parts[j].label = TestLabels[j]

\* the sum of six link lengths
SumLengths(lengths) ==
  lengths[1] + lengths[2] + lengths[3] + lengths[4] + lengths[5] + lengths[6]

AllAnglesZero == \A j \in 1..6 : kin.angles[j] = 0

\* C12: calculate_tip_xy with all six angles 0 returns (sum of the six
\* lengths, 0, 0), whatever the lengths.
C12_ZeroAngles ==
  kin.called /\ AllAnglesZero => kin.tip = <<SumLengths(kin.lengths) * Scale, 0, 0>>

\* the call with all angles 0 and lengths 1, 2, 0, 2, 1, 2 has returned (8, 0, 0)
C12_Witness ==
  /\ kin.called /\ AllAnglesZero
  /\ kin.lengths = <<1, 2, 0, 2, 1, 2>>
  /\ kin.tip = <<8 * Scale, 0, 0>>

\* joint i is the only one with a length, and the only one that may be turned
SingleJoint(i) ==
  /\ \A j \in 1..6 : j # i => kin.lengths[j] = 0 /\ kin.angles[j] = 0
  /\ kin.lengths[i] > 0

\* C13 as stated: with all lengths zero except length[i] and all other angles
\* zero, calculate_tip_xy returns (length[i], 0, 0) whatever angle[i] is.
C13_SingleJointStraight ==
  \A i \in 1..6 :
    kin.called /\ SingleJoint(i) => kin.tip = <<kin.lengths[i] * Scale, 0, 0>>

\* the axis each joint of the chain turns about, joint 0 first
ChainAxes == <<"y", "y", "z", "x", "z", "z">>

\* a link of length len along the local X of a joint turned by deg about axis
TurnedLink(axis, deg, len) ==
  LET c == CosTab[((deg * 512) \div (180 * DegDen)) % 1024]
      s == SinTab[((deg * 512) \div (180 * DegDen)) % 1024]
  IN  CASE axis = "x" -> <<len * Scale, 0, 0>>
        [] axis = "y" -> <<len * c, 0, -(len * s)>>
        [] axis = "z" -> <<len * c, len * s, 0>>

\* C13 amended: with all lengths zero except length[i] and all other angles
\* zero, calculate_tip_xy returns length[i] along the local X axis of joint i
\* turned by angle[i]: (L cos a, 0, -L sin a) for joints 0 and 1,
\* (L cos a, L sin a, 0) for joints 2, 4 and 5, and (L, 0, 0) for joint 3 only.
C13_SingleJointTurned ==
  \A i \in 1..6 :
    kin.called /\ SingleJoint(i) =>
      kin.tip = TurnedLink(ChainAxes[i], kin.angles[i], kin.lengths[i])

\* joint 0 alone, turned by 90 degrees with length 2: the tip is at (0, 0, -2)
C13_Witness ==
  /\ kin.called /\ SingleJoint(1)
  /\ kin.angles[1] = 90 * DegDen /\ kin.lengths[1] = 2
  /\ kin.tip = <<0, 0, -2 * Scale>>

\* two coordinates agree to 2 decimals
Near(v, w) == Abs(v - w) * 100 < Scale
NearTip(tip, x, y, z) == Near(tip[1], x) /\ Near(tip[2], y) /\ Near(tip[3], z)

\* the example usage has run
ExampleCalled ==
  kin.called /\ kin.angles = my_angles /\ kin.lengths = DUMMY_LENGTHS

\* C14 as stated: angles [0, 45, 0, 0, 0, 0] and lengths [10, 10, 10, 5, 5, 2]
\* give x = 34.07, y = -7.07, z = 0 to 2 decimals.
C14_ExampleAsStated ==
  ExampleCalled => NearTip(kin.tip, 34070, -7070, 0)

\* C14 amended: angles [0, 45, 0, 0, 0, 0] and lengths [10, 10, 10, 5, 5, 2]
\* give x = 10 + 32 * cos(45 deg) = 32.63, y = 0 and z = -32 * sin(45 deg) = -22.63
\* to 2 decimals: every link after joint 1 is turned with it, about Y.
C14_ExampleTurnsAboutY ==
  ExampleCalled => NearTip(kin.tip, 32630, 0, -22630)

\* the example usage has returned a tip below the base plane
C14_Witness ==
  ExampleCalled /\ kin.tip[3] < -22 * Scale /\ kin.tip[1] > 32 * Scale /\ kin.tip[2] = 0

\* C15: while a thread holds the lock it does no console output (and no serial
\* read and no kinematics): the step in which a reader prints the formatted
\* line is taken by a reader that does not hold the lock.
C15_NoOutputUnderLock ==
  [][\A i \in Threads : tpc[i] = "print" /\ tpc'[i] # "print" => lock # i]_vars

\* C16: once stop() has cleared the running flag, every reader thread that is
\* still running eventually exits its loop (each readline returning within its
\* timeout, each thread being scheduled).
C16_ReaderExitsAfterStop ==
  \A i \in Threads : (~running /\ i \in Alive) ~> (tpc[i] = "done")

\* the consumer's side: what a call returned and where the calling thread is
ConsumerView == <<mpc, snapshot, upd, lastOp, ncalls>>

\* C17: an exception in readline or in the processing of a line takes the
\* reader to the except branch and changes nothing on the consumer's side; from
\* there the reader, having logged and slept, goes back to its loop condition;
\* a reader leaves its loop only at the loop condition, with running false, and
\* running is set false by stop() alone.
C17_ExceptionsStayInReader ==
  [][/\ \A i \in Threads :
          /\ tpc[i] # "backoff" /\ tpc'[i] = "backoff" =>
               /\ tpc[i] \notin {"unborn", "loop", "done"}
               /\ ConsumerView' = ConsumerView
          /\ tpc[i] = "backoff" /\ tpc'[i] # "backoff" =>
               tpc'[i] = "loop"
          /\ tpc[i] # "done" /\ tpc'[i] = "done" => tpc[i] = "loop" /\ ~running
     /\ running /\ ~running' => mpc = "idle" /\ mpc' = "stop_join"]_vars

\* the only reader met an exception while processing its first line (the roll
\* conversion overflowed after pitch was stored), has logged it and is back at
\* its loop condition
C17_Witness ==
  /\ ncalls = 1 /\ running
  /\ tpc[1] = "loop" /\ nreads = 1 /\ lock = 0
  /\ values.pitch = 270 * DegDen /\ values.roll = 0

\* the thread of the consumer, which calls start(), stop() and get_orientation()
MainThread == MaxCalls + 1

\* C18: the running flag is read and written only by a thread that holds the
\* lock: a step that writes running is taken with the lock held by the
\* consumer's thread, and a reader evaluates its loop condition holding the lock.
C18_SharedAccessUnderLock ==
  [][/\ running' # running => lock = MainThread
     /\ \A i \in Threads : tpc[i] = "loop" /\ tpc'[i] # "loop" => lock = i]_vars

\* a start() has returned without a connection and no reader is running
MockMode ==
  /\ lastOp \in {"start_noport", "start_openfail"}
  /\ ~running /\ serial_connection = 0 /\ Alive = {}

\* a stop() has returned
Stopped == lastOp = "stop"

\* C19: MockMode is terminal and Stopped never returns to Running: a controller
\* in mock mode, or stopped, is not running after the next call either, and
\* that call starts no reader thread.
C19_LifecycleOneWay ==
  [][MockMode \/ Stopped =>
       /\ ~running'
       /\ \A i \in Threads : tpc[i] = "unborn" => tpc'[i] = "unborn"]_vars

\* C20: publishing a frame is all-or-nothing: while a reader processes a line
\* whose processing raises, no step changes the stored Pose or raw readings.
C20_FailedFrameStoresNothing ==
  [][\A i \in Threads :
       lock = i /\ tline[i] \in LineIds /\ ~Publishable(tline[i]) => values' = values]_vars

\* C21: after stop() has returned (and until another call is made) no step
\* modifies the stored Pose or raw readings, so that two get_orientation()
\* calls made after it give the same result; and the step of stop() that
\* closes the connection is taken with no reader thread still running.
C21_QuietAfterStop ==
  [][/\ lastOp = "stop" => values' = values
     /\ StopReturns /\ is_open /\ ~is_open' => Alive = {}]_vars

====
